---- MODULE Spec2Model ----
(***************************************************************************)
(* A model of 7ds_midi.py: the conversion of a merged MIDI track into the  *)
(* 7DS Grand Cross jukebox macro language.                                 *)
(*                                                                         *)
(* Python strings are modelled as sequences of one-character strings, so   *)
(* that '' is << >>, concatenation is \o and a document can be compared    *)
(* character by character.                                                 *)
(***************************************************************************)
EXTENDS Integers, Sequences, FiniteSets, TLC

VARIABLES
    pc,             \* where Midi.encode stands: "loop", "done" or "error"
    err,            \* the uncaught exception, "none" while there is none
    tempo,          \* Midi.tempo
    disable_vel,    \* Track._disable_vel
    ticks_per_beat, \* MidiFile.ticks_per_beat
    speed_mult,     \* speed_mult as the exact fraction <<numerator, denominator>>
    track,          \* the messages of self.track consumed so far
    time,           \* Track.encode: time
    durations,      \* Track.encode: durations, a dict from note number to a list of Notes
    lines,          \* Track.encode: lines
    result,         \* the string Midi.encode returned (<< >> until it returns)
    horizon,        \* how many messages the track under conversion may hold
    call,           \* Note._get_length_str: the running call (a unit under test)
    ent             \* a Note or Rest built and encoded on its own (a unit under test)

vars == <<pc, err, tempo, disable_vel, ticks_per_beat, speed_mult, track, time,
          durations, lines, result, horizon, call, ent>>

trackVars == <<pc, err, tempo, disable_vel, ticks_per_beat, speed_mult, track, time,
               durations, lines, result, horizon>>

-----------------------------------------------------------------------------
(* Bounds of the model *)

MaxEvents == 4
MaxDuration == 40
MaxEntDuration == 5

-----------------------------------------------------------------------------
(* Generic helpers *)

RECURSIVE SumSeq(_)
SumSeq(s) == IF s = << >> THEN 0 ELSE Head(s) + SumSeq(Tail(s))

Reverse(s) == [i \in 1..Len(s) |-> s[Len(s) + 1 - i]]

Digit(n) == <<"0", "1", "2", "3", "4", "5", "6", "7", "8", "9">>[n + 1]

RECURSIVE NatStr(_)
NatStr(n) == IF n < 10 THEN <<Digit(n)>> ELSE NatStr(n \div 10) \o <<Digit(n % 10)>>

\* Python str(int)
IntStr(n) == IF n < 0 THEN <<"-">> \o NatStr(0 - n) ELSE NatStr(n)

\* Python 3 round(x) for the exact non-negative fraction x = num / den: to the
\* nearest integer, a tie going to the even neighbour.
Round(num, den) ==
    LET q == num \div den
        r == num % den
    IN  IF 2 * r < den THEN q
        ELSE IF 2 * r > den THEN q + 1
        ELSE IF q % 2 = 0 THEN q ELSE q + 1

\* The value of a call: what it returned, or the exception it raised.
Returned(v) == [exc |-> "none", val |-> v]
Raised(e) == [exc |-> e, val |-> << >>]

-----------------------------------------------------------------------------
(* class Note *)

_PITCHES == << <<"C">>, <<"C", "#">>, <<"D">>, <<"D", "#">>, <<"E">>, <<"F">>,
               <<"F", "#">>, <<"G">>, <<"G", "#">>, <<"A">>, <<"A", "#">>, <<"B">> >>

NeutralVelocity == 12

\* round(msg.velocity * (16/128)): 16/128 = 0.125 and the product are exact in
\* binary floating point, so this is Round of the fraction velocity / 8.
VelocityBucket(velocity, dv) ==
    IF dv THEN NeutralVelocity ELSE Round(velocity * 16, 128)

\* Note.__init__
Note(msg, start, duration, dv) ==
    [class |-> "Note",
     note_value |-> msg.note,
     pitch |-> _PITCHES[(msg.note % 12) + 1],
     octave |-> (msg.note \div 12) - 1,
     start |-> start,
     duration |-> duration,
     velocity |-> VelocityBucket(msg.velocity, dv)]

\* Rest.__init__
Rest(start, duration) ==
    [class |-> "Rest", pitch |-> <<"R">>, start |-> start, duration |-> duration]

\* Note.end, Rest.end
EndOf(n) == n.start + n.duration

\* The OrderedDict d of _get_length_str, and its keys in insertion order.
LengthKeys == <<1, 2, 3, 4, 6, 8, 12, 16, 24>>

LengthTable ==
    (1 :> <<"1", "6">>) @@ (2 :> <<"8">>) @@ (3 :> <<"8", ".">>) @@ (4 :> << >>) @@
    (6 :> <<"4", ".">>) @@ (8 :> <<"2">>) @@ (12 :> <<"2", ".">>) @@ (16 :> <<"1">>) @@
    (24 :> <<"1", ".">>)

\* d.get(duration): None when the key is missing.
DGet(duration) ==
    IF duration \in DOMAIN LengthTable
    THEN [none |-> FALSE, val |-> LengthTable[duration]]
    ELSE [none |-> TRUE, val |-> << >>]

\* `not result`: None and the empty string are both falsy.
NotResult(r) == r.none \/ r.val = << >>

\* The loop over reversed(d): the first key, from the largest down, that is
\* smaller than duration; 0 stands for None when there is none.
RECURSIVE ScanLow(_, _)
ScanLow(keys, duration) ==
    IF keys = << >> THEN 0
    ELSE IF Head(keys) < duration THEN Head(keys)
    ELSE ScanLow(Tail(keys), duration)

Low(duration) == ScanLow(Reverse(LengthKeys), duration)

\* A faulty variant of LengthStep: the remainder passed on is one too small.
LengthStepShortRemainder(pitch, duration) ==
    IF duration < 1 THEN [kind |-> "raise", exc |-> "AssertionError"]
    ELSE IF NotResult(DGet(duration))
         THEN IF Low(duration) = 0
              THEN [kind |-> "raise", exc |-> "KeyError"]
              ELSE [kind |-> "recurse",
                    head |-> LengthTable[Low(duration)] \o <<"&">> \o pitch,
                    low |-> Low(duration),
                    next |-> duration - Low(duration) - 1]
         ELSE [kind |-> "return", val |-> DGet(duration).val]

\* One activation of _get_length_str(duration) for a note of the given pitch:
\* it raises, it returns val, or it emits head and calls itself on next.
LengthStep(pitch, duration) ==
    IF duration < 1 THEN [kind |-> "raise", exc |-> "AssertionError"]
    ELSE IF NotResult(DGet(duration))
         THEN IF Low(duration) = 0
              THEN [kind |-> "raise", exc |-> "KeyError"]
              ELSE [kind |-> "recurse",
                    head |-> LengthTable[Low(duration)] \o <<"&">> \o pitch,
                    low |-> Low(duration),
                    next |-> duration - Low(duration)]
         ELSE [kind |-> "return", val |-> DGet(duration).val]

\* Note._get_length_str as a function of (pitch, duration).
RECURSIVE _get_length_str(_, _)
_get_length_str(pitch, duration) ==
    LET s == LengthStep(pitch, duration)
    IN  IF s.kind = "raise" THEN Raised(s.exc)
        ELSE IF s.kind = "return" THEN Returned(s.val)
        ELSE LET rest == _get_length_str(pitch, s.next)
             IN  IF rest.exc # "none" THEN rest
                 ELSE Returned(s.head \o rest.val)

\* A faulty variant of Note.encode: the zero-duration guard of line 58 missing.
NoteEncodeNoGuard(n) ==
    LET prefix == (IF n.velocity # NeutralVelocity
                   THEN <<"V">> \o IntStr(n.velocity) ELSE << >>)
                  \o <<"O">> \o IntStr(n.octave) \o n.pitch
        len == _get_length_str(n.pitch, n.duration)
    IN  IF len.exc # "none" THEN len ELSE Returned(prefix \o len.val)

\* Note.encode
NoteEncode(n) ==
    IF n.duration <= 0 THEN Returned(<< >>)
    ELSE LET prefix == (IF n.velocity # NeutralVelocity
                        THEN <<"V">> \o IntStr(n.velocity) ELSE << >>)
                       \o <<"O">> \o IntStr(n.octave) \o n.pitch
             len == _get_length_str(n.pitch, n.duration)
         IN  IF len.exc # "none" THEN len ELSE Returned(prefix \o len.val)

\* Rest.encode
RestEncode(r) ==
    LET len == _get_length_str(r.pitch, r.duration)
    IN  IF len.exc # "none" THEN len ELSE Returned(r.pitch \o len.val)

\* note.encode(), dispatched on the class
Encode(n) == IF n.class = "Rest" THEN RestEncode(n) ELSE NoteEncode(n)

-----------------------------------------------------------------------------
(* class Line *)

\* A faulty variant of Line: the leading Rest is added even to a Line that
\* starts at the beginning.
LineAlwaysLeadingRest(start) ==
    [start |-> start, duration |-> 0, items |-> <<Rest(0, start)>>]

\* Line.__init__
Line(start) ==
    [start |-> start,
     duration |-> 0,
     items |-> IF start > 0 THEN <<Rest(0, start)>> ELSE << >>]

\* Line.end
LineEnd(l) == l.start + l.duration

\* A faulty variant of Line.append: no Rest is put into a gap.
LineAppendNoRest(l, note) ==
    [l EXCEPT !.items = Append(@, note),
              !.duration = @ + note.duration]

\* Line.append
LineAppend(l, note) ==
    LET gap == note.start > LineEnd(l)
        filled == IF gap
                  THEN [l EXCEPT !.items = Append(@, Rest(LineEnd(l), note.start - LineEnd(l))),
                                 !.duration = @ + (note.start - LineEnd(l))]
                  ELSE l
    IN  [filled EXCEPT !.items = Append(@, note),
                       !.duration = @ + note.duration]

\* Line.encode
RECURSIVE EncodeItems(_)
EncodeItems(items) ==
    IF items = << >> THEN Returned(<< >>)
    ELSE LET first == Encode(Head(items))
         IN  IF first.exc # "none" THEN first
             ELSE LET rest == EncodeItems(Tail(items))
                  IN  IF rest.exc # "none" THEN rest
                      ELSE Returned(first.val \o rest.val)

LineEncode(l) == EncodeItems(l.items)

-----------------------------------------------------------------------------
(* class Track *)

\* self.tpb = ticks_per_beat * speed_mult, as the fraction <<numerator, denominator>>
Tpb == <<ticks_per_beat * speed_mult[1], speed_mult[2]>>

\* Track._tick_to_sixteenth: round((ticks / self.tpb) * 4).  The multiplication
\* by 4 is exact in binary floating point and the quotient's rounding error is
\* far below the distance of a non-tie to the nearest half, so the result is
\* Round of the exact fraction 4 * ticks / tpb.
\* A faulty variant: the factor 4 forgotten, so that the result counts beats.
TickToBeat(ticks) == Round(ticks * Tpb[2], Tpb[1])

_tick_to_sixteenth(ticks) == Round(4 * ticks * Tpb[2], Tpb[1])

\* A faulty variant of ScanLines: a line's start is compared, not its end.
RECURSIVE ScanLinesByStart(_, _, _)
ScanLinesByStart(ls, i, note) ==
    IF i = 0 THEN 0
    ELSE IF ls[i].start <= note.start THEN i
    ELSE ScanLinesByStart(ls, i - 1, note)

\* The scan `for line in reversed(lines)` from index i down: the index of the
\* first line that has ended by the note's start, 0 when there is none.
RECURSIVE ScanLines(_, _, _)
ScanLines(ls, i, note) ==
    IF i = 0 THEN 0
    ELSE IF LineEnd(ls[i]) <= note.start THEN i
    ELSE ScanLines(ls, i - 1, note)

\* A faulty variant of _get_available_line: the newest line is taken without
\* looking at its end.
AvailableLineAlwaysLast(ls, note) ==
    IF Len(ls) > 0
    THEN [lines |-> ls, index |-> Len(ls)]
    ELSE [lines |-> Append(ls, Line(note.start)), index |-> Len(ls) + 1]

\* A faulty variant of _get_available_line: the oldest free line is taken.
AvailableLineOldestFirst(ls, note) ==
    LET free == {i \in 1..Len(ls) : LineEnd(ls[i]) <= note.start}
    IN  IF free # {}
        THEN [lines |-> ls, index |-> CHOOSE i \in free : \A j \in free : i <= j]
        ELSE [lines |-> Append(ls, Line(note.start)), index |-> Len(ls) + 1]

\* Track._get_available_line: the list of lines after the call and the index
\* in it of the line returned.
_get_available_line(ls, note) ==
    IF ScanLines(ls, Len(ls), note) # 0
    THEN [lines |-> ls, index |-> ScanLines(ls, Len(ls), note)]
    ELSE [lines |-> Append(ls, Line(note.start)), index |-> Len(ls) + 1]

\* self._get_available_line(lines, note).append(note)
Place(ls, note) ==
    LET got == _get_available_line(ls, note)
    IN  [got.lines EXCEPT ![got.index] = LineAppend(@, note)]

\* A faulty variant of Grow: of each pitch only the newest note grows.
GrowNewestOnly(durs, q) ==
    [k \in DOMAIN durs |->
        [i \in 1..Len(durs[k]) |->
            IF i = Len(durs[k]) THEN [durs[k][i] EXCEPT !.duration = @ + q]
            ELSE durs[k][i]]]

\* Lines 123-127: every active note grows by the message's quantized delta.
Grow(durs, q) ==
    [k \in DOMAIN durs |->
        [i \in 1..Len(durs[k]) |-> [durs[k][i] EXCEPT !.duration = @ + q]]]

\* A faulty variant of EncodeLines: a comma follows every line, the last too.
RECURSIVE EncodeLinesTrailingComma(_)
EncodeLinesTrailingComma(ls) ==
    IF ls = << >> THEN Returned(<< >>)
    ELSE LET first == LineEncode(Head(ls))
         IN  IF first.exc # "none" THEN first
             ELSE LET rest == EncodeLinesTrailingComma(Tail(ls))
                  IN  IF rest.exc # "none" THEN rest
                      ELSE Returned(first.val \o <<",">> \o rest.val)

\* Line 141: ','.join(line.encode() for line in lines)
RECURSIVE EncodeLines(_)
EncodeLines(ls) ==
    IF ls = << >> THEN Returned(<< >>)
    ELSE LET first == LineEncode(Head(ls))
         IN  IF first.exc # "none" THEN first
             ELSE IF Len(ls) = 1 THEN first
             ELSE LET rest == EncodeLines(Tail(ls))
                  IN  IF rest.exc # "none" THEN rest
                      ELSE Returned(first.val \o <<",">> \o rest.val)

\* Track.encode, lines 140-143
TrackEncodeResult(ls) == EncodeLines(ls)

-----------------------------------------------------------------------------
(* class Midi *)

DefaultTempo == 120

Header == <<"7", "M", "L", "@">>

\* A faulty variant of Midi.encode: the tempo tag is written whatever the tempo.
MidiEncodeAlwaysTempo(tp, trackResult) ==
    IF trackResult.exc # "none" THEN trackResult
    ELSE Returned(Header \o <<"T">> \o IntStr(tp) \o trackResult.val \o <<";">>)

\* Midi.encode, given what self.track.encode() returned
MidiEncode(tp, trackResult) ==
    IF trackResult.exc # "none" THEN trackResult
    ELSE Returned(Header
                  \o (IF tp # DefaultTempo THEN <<"T">> \o IntStr(tp) ELSE << >>)
                  \o trackResult.val \o <<";">>)

-----------------------------------------------------------------------------
(* The conversion as a state machine: one step per message of the track *)

IsNoteMsg(msg) == msg.type \in {"note_on", "note_off"}
IsNoteOn(msg) == msg.type = "note_on" /\ msg.velocity > 0
IsNoteOff(msg) == IsNoteMsg(msg) /\ ~IsNoteOn(msg)

\* The messages a merged track is made of here.
Pitches == {60, 61}
Deltas == {0, 180, 480}

Events ==
    [type : {"note_on"}, note : {60}, velocity : {100, 0}, time : Deltas]
    \cup [type : {"note_on"}, note : {61}, velocity : {64}, time : Deltas]
    \cup [type : {"note_off"}, note : Pitches, velocity : {64}, time : Deltas]
    \cup [type : {"control_change"}, note : {0}, velocity : {0}, time : Deltas]

Idle == [pc |-> "idle"]

NoDurations == [k \in {} |-> << >>]

\* Midi.__init__ and the first lines of Track.encode
Init ==
    /\ pc = "loop"
    /\ err = "none"
    /\ tempo = DefaultTempo
    /\ disable_vel = FALSE
    /\ ticks_per_beat = 480
    /\ speed_mult = <<1, 1>>
    /\ track = << >>
    /\ time = 0
    /\ durations = NoDurations
    /\ lines = << >>
    /\ result = << >>
    /\ horizon = MaxEvents
    /\ call = Idle
    /\ ent = Idle

\* The head of the loop body for msg (lines 122-127)
Advance(msg) ==
    /\ pc = "loop"
    /\ Len(track) < horizon
    /\ track' = Append(track, msg)
    /\ time' = time + _tick_to_sixteenth(msg.time)
    /\ UNCHANGED <<tempo, disable_vel, ticks_per_beat, speed_mult, result, horizon,
                   call, ent>>

\* Whether the pitch has a note to pop: a key of the dict with a non-empty list
HasOpen(durs, note) ==
    IF note \in DOMAIN durs THEN durs[note] # << >> ELSE FALSE

\* A faulty variant of NoteOn: the note is also put into a Line when it opens.
NoteOnPlacedAtOnce(msg) ==
    /\ IsNoteOn(msg)
    /\ Advance(msg)
    /\ LET grown == Grow(durations, _tick_to_sixteenth(msg.time))
           new == Note(msg, time', 0, disable_vel)
       IN  /\ durations' =
                 IF msg.note \in DOMAIN grown
                 THEN [grown EXCEPT ![msg.note] = Append(@, new)]
                 ELSE grown @@ (msg.note :> <<new>>)
           /\ lines' = Place(lines, new)
    /\ UNCHANGED <<pc, err>>

\* Lines 130-134
NoteOn(msg) ==
    /\ IsNoteOn(msg)
    /\ Advance(msg)
    /\ LET grown == Grow(durations, _tick_to_sixteenth(msg.time))
           new == Note(msg, time', 0, disable_vel)
       IN  durations' =
             IF msg.note \in DOMAIN grown
             THEN [grown EXCEPT ![msg.note] = Append(@, new)]
             ELSE grown @@ (msg.note :> <<new>>)
    /\ UNCHANGED <<pc, err, lines>>

\* A faulty variant of NoteOff: the oldest open note of the pitch is taken.
NoteOffPopFirst(msg) ==
    /\ IsNoteOff(msg)
    /\ HasOpen(durations, msg.note)
    /\ Advance(msg)
    /\ LET grown == Grow(durations, _tick_to_sixteenth(msg.time))
           stack == grown[msg.note]
       IN  /\ durations' = [grown EXCEPT ![msg.note] = Tail(stack)]
           /\ lines' = Place(lines, Head(stack))
    /\ UNCHANGED <<pc, err>>

\* Lines 135-138, the list of the pitch holding a note
NoteOff(msg) ==
    /\ IsNoteOff(msg)
    /\ HasOpen(durations, msg.note)
    /\ Advance(msg)
    /\ LET grown == Grow(durations, _tick_to_sixteenth(msg.time))
           stack == grown[msg.note]
       IN  /\ durations' = [grown EXCEPT ![msg.note] = SubSeq(stack, 1, Len(stack) - 1)]
           /\ lines' = Place(lines, stack[Len(stack)])
    /\ UNCHANGED <<pc, err>>

\* A faulty variant of NoteOffStray: the stray note-off is passed over.
NoteOffStraySkipped(msg) ==
    /\ IsNoteOff(msg)
    /\ ~HasOpen(durations, msg.note)
    /\ Advance(msg)
    /\ durations' = Grow(durations, _tick_to_sixteenth(msg.time))
    /\ UNCHANGED <<pc, err, lines>>

\* Line 137 when the pitch was never opened: durations[msg.note] raises KeyError,
\* or when its list is empty: [].pop() raises IndexError.  Nothing catches either.
NoteOffStray(msg) ==
    /\ IsNoteOff(msg)
    /\ ~HasOpen(durations, msg.note)
    /\ Advance(msg)
    /\ durations' = Grow(durations, _tick_to_sixteenth(msg.time))
    /\ pc' = "error"
    /\ err' = IF msg.note \notin DOMAIN durations THEN "KeyError" ELSE "IndexError"
    /\ UNCHANGED lines

\* A faulty variant of Ignored: the message is skipped before the open notes grow.
IgnoredNoGrow(msg) ==
    /\ ~IsNoteMsg(msg)
    /\ Advance(msg)
    /\ UNCHANGED <<pc, err, lines, durations>>

\* Line 129 false: any other message only moves time
Ignored(msg) ==
    /\ ~IsNoteMsg(msg)
    /\ Advance(msg)
    /\ durations' = Grow(durations, _tick_to_sixteenth(msg.time))
    /\ UNCHANGED <<pc, err, lines>>

\* The track is exhausted: Track.encode lines 140-143, Midi.encode lines 205-208
EndOfTrack ==
    /\ pc = "loop"
    /\ LET r == MidiEncode(tempo, TrackEncodeResult(lines))
       IN  /\ pc' = IF r.exc = "none" THEN "done" ELSE "error"
           /\ err' = r.exc
           /\ result' = r.val
    /\ UNCHANGED <<tempo, disable_vel, ticks_per_beat, speed_mult, track, time,
                   durations, lines, horizon, call, ent>>

\* One pass of the loop body, the message drawn from the set E
Step(E) ==
    \/ \E msg \in E : NoteOn(msg)
    \/ \E msg \in E : NoteOff(msg)
    \/ \E msg \in E : NoteOffStray(msg)
    \/ \E msg \in E : Ignored(msg)

Next == Step(Events) \/ EndOfTrack

Spec == Init /\ [][Next]_vars

-----------------------------------------------------------------------------
(* The quantizer under other resolutions: tracks of one pitch whose deltas   *)
(* fall between sixteenths, for files of 96 and 480 ticks per beat played at *)
(* half, normal and double speed.                                            *)

DeltasQuant == {60, 100, 180}

EventsQuant ==
    [type : {"note_on"}, note : {60}, velocity : {100}, time : DeltasQuant]
    \cup [type : {"note_off"}, note : {60}, velocity : {64}, time : DeltasQuant]
    \cup [type : {"control_change"}, note : {0}, velocity : {0}, time : DeltasQuant]

InitQuant ==
    /\ pc = "loop"
    /\ err = "none"
    /\ tempo = DefaultTempo
    /\ disable_vel = FALSE
    /\ ticks_per_beat \in {96, 480}
    /\ speed_mult \in {<<1, 2>>, <<1, 1>>, <<2, 1>>}
    /\ track = << >>
    /\ time = 0
    /\ durations = NoDurations
    /\ lines = << >>
    /\ result = << >>
    /\ horizon = MaxEvents
    /\ call = Idle
    /\ ent = Idle

NextQuant == Step(EventsQuant) \/ EndOfTrack

SpecQuant == InitQuant /\ [][NextQuant]_vars

-----------------------------------------------------------------------------
(* The options of Midi.__init__: other tempos, velocities on and off, for   *)
(* tracks of one pitch whose notes carry a velocity outside the neutral      *)
(* bucket.                                                                   *)

Tempos == {60, 120, 150}

EventsOptions ==
    [type : {"note_on"}, note : {61}, velocity : {64}, time : Deltas]
    \cup [type : {"note_off"}, note : {61}, velocity : {64}, time : Deltas]
    \cup [type : {"control_change"}, note : {0}, velocity : {0}, time : Deltas]

InitOptions ==
    /\ pc = "loop"
    /\ err = "none"
    /\ tempo \in Tempos
    /\ disable_vel \in BOOLEAN
    /\ ticks_per_beat = 480
    /\ speed_mult = <<1, 1>>
    /\ track = << >>
    /\ time = 0
    /\ durations = NoDurations
    /\ lines = << >>
    /\ result = << >>
    /\ horizon = MaxEvents
    /\ call = Idle
    /\ ent = Idle

NextOptions == Step(EventsOptions) \/ EndOfTrack

SpecOptions == InitOptions /\ [][NextOptions]_vars

-----------------------------------------------------------------------------
(* Longer tracks of two pitches, every note-on at the instant of the message *)
(* before it and every note-off one beat later: three and more finished      *)
(* notes, so that a note can find several lines free.                        *)

ExtraEvents == 2

EventsAlloc ==
    [type : {"note_on"}, note : Pitches, velocity : {100}, time : {0}]
    \cup [type : {"note_off"}, note : Pitches, velocity : {64}, time : {480}]
    \cup [type : {"control_change"}, note : {0}, velocity : {0}, time : {180}]

InitAlloc ==
    /\ pc = "loop"
    /\ err = "none"
    /\ tempo = DefaultTempo
    /\ disable_vel = FALSE
    /\ ticks_per_beat = 480
    /\ speed_mult = <<1, 1>>
    /\ track = << >>
    /\ time = 0
    /\ durations = NoDurations
    /\ lines = << >>
    /\ result = << >>
    /\ horizon = MaxEvents + ExtraEvents
    /\ call = Idle
    /\ ent = Idle

NextAlloc == Step(EventsAlloc) \/ EndOfTrack

SpecAlloc == InitAlloc /\ [][NextAlloc]_vars

-----------------------------------------------------------------------------
(* Note._get_length_str on its own: one step per activation of the function *)

PitchTokens == {_PITCHES[i] : i \in 1..Len(_PITCHES)} \cup {<<"R">>}

\* The conversion itself at rest, while a unit is exercised on its own
TrackIdle ==
    /\ pc = "idle"
    /\ err = "none"
    /\ tempo = DefaultTempo
    /\ disable_vel = FALSE
    /\ ticks_per_beat = 480
    /\ speed_mult = <<1, 1>>
    /\ track = << >>
    /\ time = 0
    /\ durations = NoDurations
    /\ lines = << >>
    /\ result = << >>
    /\ horizon = MaxEvents

InitLength ==
    /\ TrackIdle
    /\ ent = Idle
    /\ call \in {[pc |-> "call", pitch |-> p, duration |-> d, arg |-> d, out |-> << >>,
                  keys |-> << >>, calls |-> 1, exc |-> "none"] :
                 p \in PitchTokens, d \in 0..MaxDuration}

\* Line 53: the function emits the largest smaller key and calls itself
LengthRecurse ==
    /\ call.pc = "call"
    /\ LET s == LengthStep(call.pitch, call.arg)
       IN  /\ s.kind = "recurse"
           /\ call' = [call EXCEPT !.arg = s.next,
                                   !.out = @ \o s.head,
                                   !.keys = Append(@, s.low),
                                   !.calls = @ + 1]
    /\ UNCHANGED <<trackVars, ent>>

\* Line 55: the innermost activation returns the table's token, and with it
\* every pending activation returns
LengthReturn ==
    /\ call.pc = "call"
    /\ LET s == LengthStep(call.pitch, call.arg)
       IN  /\ s.kind = "return"
           /\ call' = [call EXCEPT !.pc = "returned",
                                   !.out = @ \o s.val,
                                   !.keys = Append(@, call.arg)]
    /\ UNCHANGED <<trackVars, ent>>

\* Line 30 (or line 53 with low = None): the call raises
LengthRaise ==
    /\ call.pc = "call"
    /\ LET s == LengthStep(call.pitch, call.arg)
       IN  /\ s.kind = "raise"
           /\ call' = [call EXCEPT !.pc = "raised", !.exc = s.exc, !.out = << >>]
    /\ UNCHANGED <<trackVars, ent>>

NextLength == LengthRecurse \/ LengthReturn \/ LengthRaise

\* A call that can take a step takes it: Python runs the function to its end.
SpecLength == InitLength /\ [][NextLength]_vars /\ WF_vars(NextLength)

-----------------------------------------------------------------------------
(* A Note or a Rest built and encoded on its own *)

EntityArgs ==
    [class : {"Note"}, note : Pitches, velocity : 1..127, dv : BOOLEAN,
     start : {0}, duration : 0..MaxEntDuration]
    \cup [class : {"Rest"}, note : {0}, velocity : {0}, dv : {FALSE},
          start : {0}, duration : 0..MaxEntDuration]

InitEntity ==
    /\ TrackIdle
    /\ call = Idle
    /\ ent \in {[pc |-> "args", args |-> a, obj |-> Idle, out |-> Returned(<< >>)] :
                a \in EntityArgs}

\* Note.__init__
ConstructNote ==
    /\ ent.pc = "args"
    /\ ent.args.class = "Note"
    /\ ent' = [ent EXCEPT !.pc = "built",
                          !.obj = Note([note |-> ent.args.note, velocity |-> ent.args.velocity],
                                       ent.args.start, ent.args.duration, ent.args.dv)]
    /\ UNCHANGED <<trackVars, call>>

\* Rest.__init__
ConstructRest ==
    /\ ent.pc = "args"
    /\ ent.args.class = "Rest"
    /\ ent' = [ent EXCEPT !.pc = "built",
                          !.obj = Rest(ent.args.start, ent.args.duration)]
    /\ UNCHANGED <<trackVars, call>>

\* obj.encode()
EncodeEntity ==
    /\ ent.pc = "built"
    /\ ent' = [ent EXCEPT !.pc = "encoded", !.out = Encode(ent.obj)]
    /\ UNCHANGED <<trackVars, call>>

NextEntity == ConstructNote \/ ConstructRest \/ EncodeEntity

SpecEntity == InitEntity /\ [][NextEntity]_vars

-----------------------------------------------------------------------------
(* Properties *)

Max(S) == CHOOSE x \in S : \A y \in S : y <= x

Abs(x) == IF x < 0 THEN 0 - x ELSE x

\* The positions <<line, item>> of the Notes that were put into lines
PlacedNotes ==
    {p \in UNION {{<<i, j>> : j \in 1..Len(lines[i].items)} : i \in 1..Len(lines)} :
        lines[p[1]].items[p[2]].class = "Note"}

NoteAt(p) == lines[p[1]].items[p[2]]

\* How many finished notes of positive duration sound at instant t
Sounding(t) ==
    Cardinality({p \in PlacedNotes : NoteAt(p).start <= t /\ t < EndOf(NoteAt(p))})

MaxSounding == Max({Sounding(t) : t \in 0..time})

\* C1: no two Notes of one Line overlap in time: a Note placed before another
\* in the same Line has ended by the time the other starts.
C1_NoOverlapInLine ==
    \A i \in 1..Len(lines) :
        \A a, b \in 1..Len(lines[i].items) :
            (a < b /\ lines[i].items[a].class = "Note" /\ lines[i].items[b].class = "Note")
                => EndOf(lines[i].items[a]) <= lines[i].items[b].start

\* A Line holds two Notes of positive duration, the second placed after a gap.
C1_Witness ==
    \E i \in 1..Len(lines) :
        \E a, b \in 1..Len(lines[i].items) :
            /\ a < b
            /\ lines[i].items[a].class = "Note" /\ lines[i].items[a].duration > 0
            /\ lines[i].items[b].class = "Note" /\ lines[i].items[b].duration > 0
            /\ EndOf(lines[i].items[a]) < lines[i].items[b].start

\* C2: every Line is non-empty and contiguous from time 0: its first entry
\* starts at 0, each entry starts where the one before it ends, and Line.end is
\* the end of its last entry.
C2_LineContiguous ==
    \A i \in 1..Len(lines) :
        LET items == lines[i].items
        IN  /\ items # << >>
            /\ items[1].start = 0
            /\ \A j \in 1..(Len(items) - 1) : items[j + 1].start = EndOf(items[j])
            /\ LineEnd(lines[i]) = EndOf(items[Len(items)])

\* A Line that began after time 0 and later took a Note after a gap: a leading
\* Rest, a Note, a gap Rest, a Note.
C2_Witness ==
    \E i \in 1..Len(lines) :
        LET items == lines[i].items
        IN  /\ Len(items) = 4
            /\ items[1].class = "Rest" /\ items[2].class = "Note"
            /\ items[3].class = "Rest" /\ items[4].class = "Note"

\* C3: for a duration that is a key of the table, _get_length_str returns that
\* key's token as a single segment: one activation, no '&'.
C3_TableKeyToken ==
    (call.pc # "idle" /\ call.duration \in DOMAIN LengthTable) =>
        /\ call.calls = 1
        /\ call.pc \in {"call", "returned"}
        /\ call.pc = "returned" =>
              /\ call.out = LengthTable[call.duration]
              /\ \A k \in 1..Len(call.out) : call.out[k] # "&"

\* C4: for every duration >= 1, _get_length_str returns, and the table keys of
\* the segments it emitted sum to the duration.
C4_DecompositionSums ==
    /\ [](call.pc = "returned" =>
            /\ SumSeq(call.keys) = call.duration
            /\ \A k \in 1..Len(call.keys) : call.keys[k] \in DOMAIN LengthTable)
    /\ [](call.pc = "raised" => call.duration < 1)
    /\ (call.pc = "call" /\ call.duration >= 1) ~> (call.pc = "returned")

\* A duration that is no key was decomposed into three tied segments.
C4_Witness ==
    /\ call.pc = "returned"
    /\ call.duration \notin DOMAIN LengthTable
    /\ Len(call.keys) = 3

\* The exceptions by which the code reports a note-off without an open note:
\* it defines no exception class of its own.
MalformedEventStream == {"KeyError", "IndexError"}

\* C5: a note-off (or a note-on with velocity 0) for a pitch with no open note
\* aborts the conversion at that message: it ends in the error state, nothing
\* is returned, no note is placed in a line, and no later message is processed.
C5_StrayNoteOffAborts ==
    [][/\ pc # "error"
       /\ (track' # track /\ IsNoteOff(track'[Len(track')])
             /\ ~HasOpen(durations, track'[Len(track')].note))
            => /\ pc' = "error"
               /\ err' \in MalformedEventStream
               /\ result' = << >>
               /\ lines' = lines]_vars

\* The conversion stopped on the note-off of a pitch whose one note had
\* already been closed, after that note had been placed in a line.
C5_Witness ==
    /\ pc = "error"
    /\ err = "IndexError"
    /\ lines # << >>
    /\ result = << >>

\* C6 as claimed: the conversion ends with as many Lines as the largest number
\* of positive-duration notes sounding at one instant.
C6_MinimumLines ==
    pc = "done" => Len(lines) = MaxSounding

\* C6 as amended: the number of Lines is at least the largest number of
\* positive-duration notes sounding at one instant and at most the number of
\* finished notes.
C6_LineCountBounds ==
    /\ MaxSounding <= Len(lines)
    /\ Len(lines) <= Cardinality(PlacedNotes)
    /\ (PlacedNotes # {}) => Len(lines) >= 1

\* Two finished notes, never more than one of positive duration sounding, and
\* two Lines.
C6_Witness ==
    /\ pc = "done"
    /\ Cardinality(PlacedNotes) = 2
    /\ MaxSounding = 1
    /\ Len(lines) = 2

\* The characters of an encoded Note before its octave tag
RECURSIVE UpTo(_, _)
UpTo(str, c) ==
    IF str = << >> \/ Head(str) = c THEN << >>
    ELSE <<Head(str)>> \o UpTo(Tail(str), c)

\* C7: a Note built from a velocity in 1..127 has its bucket in 0..15 when
\* velocities are enabled, so the prefix it encodes is one of V0..V15; with
\* velocities disabled the bucket is 12 and no prefix is encoded.
C7_VelocityBucketRange ==
    (ent.pc \in {"built", "encoded"} /\ ent.args.class = "Note") =>
        /\ ~ent.args.dv => ent.obj.velocity \in 0..15
        /\ ent.args.dv => ent.obj.velocity = NeutralVelocity
        /\ (ent.pc = "encoded" /\ ent.out.exc = "none" /\ ent.out.val # << >>) =>
              LET prefix == UpTo(ent.out.val, "O")
              IN  /\ ent.args.dv => prefix = << >>
                  /\ prefix # << >> => prefix \in {<<"V">> \o IntStr(k) : k \in 0..15}

ScenarioA ==
    << [type |-> "note_on", note |-> 60, velocity |-> 100, time |-> 0],
       [type |-> "note_off", note |-> 60, velocity |-> 64, time |-> 480] >>

\* C9: scenario A at 480 ticks per beat, speed 1, tempo 120, velocities
\* enabled: the note lasts 4 sixteenths, its bucket is 13, its token is V13O4C
\* and the document returned is 7ML@V13O4C;
C9_ScenarioA ==
    (track = ScenarioA /\ pc \in {"done", "error"} /\ ticks_per_beat = 480
       /\ speed_mult = <<1, 1>> /\ tempo = 120 /\ ~disable_vel) =>
        /\ pc = "done"
        /\ Len(lines) = 1
        /\ Len(lines[1].items) = 1
        /\ lines[1].items[1].duration = 4
        /\ lines[1].items[1].velocity = 13
        /\ Encode(lines[1].items[1]) = Returned(<<"V", "1", "3", "O", "4", "C">>)
        /\ result = <<"7", "M", "L", "@", "V", "1", "3", "O", "4", "C", ";">>

\* The raw ticks of the messages consumed so far
RECURSIVE TotalTicks(_)
TotalTicks(msgs) == IF msgs = << >> THEN 0 ELSE Head(msgs).time + TotalTicks(Tail(msgs))

\* C10: the time cursor, the sum of the quantized deltas, is within one unit
\* per message of the quantization round(4 * total ticks / tpb) of the raw total.
C10_DriftBounded ==
    Abs(time - Round(4 * TotalTicks(track) * Tpb[2], Tpb[1])) <= Len(track)

\* The time cursor has drifted from the quantization of the raw total.
C10_Witness ==
    /\ pc = "done"
    /\ Abs(time - Round(4 * TotalTicks(track) * Tpb[2], Tpb[1])) >= 2

\* How often the character c occurs in str
RECURSIVE Count(_, _)
Count(str, c) ==
    IF str = << >> THEN 0
    ELSE (IF Head(str) = c THEN 1 ELSE 0) + Count(Tail(str), c)

\* C11: the document Midi.encode returns is 7ML@, then T<bpm> exactly when the
\* tempo is not 120, then what Track.encode returned, then one ';' as its last
\* and only semicolon.
C11_DocumentLayout ==
    pc = "done" =>
        LET out == TrackEncodeResult(lines).val
            tag == IF tempo = 120 THEN << >> ELSE <<"T">> \o IntStr(tempo)
        IN  /\ SubSeq(result, 1, 4) = <<"7", "M", "L", "@">>
            /\ (result[5] = "T") <=> (tempo # 120)
            /\ result = <<"7", "M", "L", "@">> \o tag \o out \o <<";">>
            /\ result[Len(result)] = ";"
            /\ Count(result, ";") = 1
            /\ Len(result) = 4 + Len(tag) + Len(out) + 1

\* A document with a tempo tag and a note carrying a velocity prefix.
C11_Witness ==
    /\ pc = "done"
    /\ tempo = 150
    /\ SubSeq(result, 1, 9) = <<"7", "M", "L", "@", "T", "1", "5", "0", "V">>

\* The open notes of one pitch after q more sixteenths
Grown(stack, q) == [i \in 1..Len(stack) |-> [stack[i] EXCEPT !.duration = @ + q]]

\* How many Notes a Line holds
NotesIn(l) == Cardinality({j \in 1..Len(l.items) : l.items[j].class = "Note"})

\* C12: a note-off (or a note-on with velocity 0) on a pitch with an open note
\* takes the most recently opened note of that pitch off its stack, leaves all
\* other open notes in place, and appends that note, its duration frozen, to
\* exactly one Line; a note-on with velocity > 0 only pushes a note that
\* starts at the time cursor with duration 0.
C12_LifoMatching ==
    [][track' # track =>
        LET msg == track'[Len(track')]
            q == time' - time
        IN  /\ (IsNoteOff(msg) /\ HasOpen(durations, msg.note)) =>
                 LET old == durations[msg.note]
                     top == [old[Len(old)] EXCEPT !.duration = @ + q]
                     changed == {i \in 1..Len(lines') :
                                    IF i > Len(lines) THEN TRUE ELSE lines'[i] # lines[i]}
                 IN  /\ DOMAIN durations' = DOMAIN durations
                     /\ durations'[msg.note] = Grown(SubSeq(old, 1, Len(old) - 1), q)
                     /\ \A k \in DOMAIN durations \ {msg.note} :
                            durations'[k] = Grown(durations[k], q)
                     /\ Len(lines') >= Len(lines)
                     /\ Cardinality(changed) = 1
                     /\ \A i \in changed :
                            /\ lines'[i].items[Len(lines'[i].items)] = top
                            /\ NotesIn(lines'[i]) =
                                 (IF i > Len(lines) THEN 0 ELSE NotesIn(lines[i])) + 1
            /\ IsNoteOn(msg) =>
                 LET new == durations'[msg.note][Len(durations'[msg.note])]
                 IN  /\ DOMAIN durations' = DOMAIN durations \cup {msg.note}
                     /\ new.start = time' /\ new.duration = 0
                     /\ new.note_value = msg.note /\ new.class = "Note"
                     /\ durations'[msg.note] =
                          Grown(IF msg.note \in DOMAIN durations
                                THEN durations[msg.note] ELSE << >>, q) \o <<new>>
                     /\ \A k \in DOMAIN durations \ {msg.note} :
                            durations'[k] = Grown(durations[k], q)
                     /\ lines' = lines]_vars

\* Of two open notes of pitch 60 the later one has been closed and placed
\* while the earlier one is still open.
C12_Witness ==
    /\ HasOpen(durations, 60)
    /\ \E p \in PlacedNotes :
          /\ NoteAt(p).note_value = 60
          /\ NoteAt(p).start > durations[60][1].start
          /\ NoteAt(p).duration > 0

\* C13: a finished note goes to the most recently created Line that has ended
\* by the note's start, and then no Line is added and no other Line changes; a
\* new Line is created only when no Line has ended by then, it is appended
\* last, starts at the note's start and holds a leading Rest(0, note.start)
\* exactly when that start is > 0; a gap before the note is filled by a Rest.
C13_AllocationPolicy ==
    [][(track' # track /\ IsNoteOff(track'[Len(track')])
          /\ HasOpen(durations, track'[Len(track')].note)) =>
        LET msg == track'[Len(track')]
            old == durations[msg.note]
            note == [old[Len(old)] EXCEPT !.duration = @ + (time' - time)]
            free == {i \in 1..Len(lines) : LineEnd(lines[i]) <= note.start}
        IN  IF free # {}
            THEN LET i == Max(free)
                     gap == note.start - LineEnd(lines[i])
                 IN  /\ Len(lines') = Len(lines)
                     /\ \A j \in 1..Len(lines) : j # i => lines'[j] = lines[j]
                     /\ lines'[i].start = lines[i].start
                     /\ lines'[i].items =
                          lines[i].items
                          \o (IF gap > 0
                              THEN <<[class |-> "Rest", pitch |-> <<"R">>,
                                      start |-> LineEnd(lines[i]), duration |-> gap]>>
                              ELSE << >>)
                          \o <<note>>
            ELSE /\ Len(lines') = Len(lines) + 1
                 /\ \A j \in 1..Len(lines) : lines'[j] = lines[j]
                 /\ lines'[Len(lines')].start = note.start
                 /\ lines'[Len(lines')].items =
                      (IF note.start > 0
                       THEN <<[class |-> "Rest", pitch |-> <<"R">>,
                               start |-> 0, duration |-> note.start]>>
                       ELSE << >>)
                      \o <<note>>]_vars

\* Two Lines had both ended when a third note was finished, and the note went
\* to the newer one.
C13_Witness ==
    /\ Len(lines) = 2
    /\ NotesIn(lines[1]) = 1
    /\ NotesIn(lines[2]) = 2
    /\ LineEnd(lines[1]) <= lines[2].items[Len(lines[2].items)].start

\* C14: a message that is neither note_on nor note_off moves the time cursor
\* and the duration of every open note by its quantized delta and changes
\* nothing else: the open notes of each pitch, the Lines and their entries stay.
C14_OtherMessagesOnlyMoveTime ==
    [][(track' # track /\ ~IsNoteMsg(track'[Len(track')])) =>
        LET msg == track'[Len(track')]
            q == Round(4 * msg.time * speed_mult[2], ticks_per_beat * speed_mult[1])
        IN  /\ time' = time + q
            /\ DOMAIN durations' = DOMAIN durations
            /\ \A k \in DOMAIN durations :
                  /\ Len(durations'[k]) = Len(durations[k])
                  /\ \A i \in 1..Len(durations[k]) :
                        /\ durations'[k][i].duration = durations[k][i].duration + q
                        /\ [durations'[k][i] EXCEPT !.duration = 0]
                             = [durations[k][i] EXCEPT !.duration = 0]
            /\ lines' = lines
            /\ pc' = pc /\ err' = err /\ result' = result]_vars

\* A control change has just passed two sixteenths while a note was open and
\* a Line existed.
C14_Witness ==
    /\ track # << >>
    /\ track[Len(track)].type = "control_change"
    /\ track[Len(track)].time = 180
    /\ lines # << >>
    /\ \E k \in DOMAIN durations :
          /\ durations[k] # << >>
          /\ durations[k][1].duration = 2

\* The strings of parts with sep between each two neighbours
RECURSIVE JoinWith(_, _)
JoinWith(sep, parts) ==
    IF parts = << >> THEN << >>
    ELSE IF Len(parts) = 1 THEN parts[1]
    ELSE parts[1] \o sep \o JoinWith(sep, Tail(parts))

\* Two finished notes of different pitch, both started at time 0 with a
\* positive duration, and no other note
TwoNotesFromZero ==
    /\ Cardinality(PlacedNotes) = 2
    /\ \A k \in DOMAIN durations : durations[k] = << >>
    /\ \A p \in PlacedNotes : NoteAt(p).start = 0 /\ NoteAt(p).duration > 0
    /\ \E p1, p2 \in PlacedNotes : NoteAt(p1).note_value # NoteAt(p2).note_value

\* C15: what Track.encode returns is the Lines' strings in creation order with
\* a ',' between neighbours, hence one comma fewer than Lines; two notes of
\* different pitch that both start at 0 and overlap give two Lines, one comma.
C15_LinesJoinedByComma ==
    pc = "done" =>
        LET encoded == [i \in 1..Len(lines) |-> LineEncode(lines[i]).val]
            body == SubSeq(result, Len(Header) + 1, Len(result) - 1)
        IN  /\ body = JoinWith(<<",">>, encoded)
            /\ Len(lines) >= 1 => Count(result, ",") = Len(lines) - 1
            /\ Len(lines) = 0 => body = << >>
            /\ TwoNotesFromZero => (Len(lines) = 2 /\ Count(result, ",") = 1)

\* Pitch 61 was closed before pitch 60, both open from time 0: two Lines, the
\* first holding pitch 61.
C15_Witness ==
    /\ pc = "done"
    /\ TwoNotesFromZero
    /\ Len(lines) = 2
    /\ lines[1].items[1].note_value = 61
    /\ lines[1].items[1].duration < lines[2].items[1].duration

\* The time cursor after the first k messages of the track: the sum of their
\* quantized deltas
RECURSIVE TimeAfter(_)
TimeAfter(k) ==
    IF k = 0 THEN 0
    ELSE TimeAfter(k - 1)
         + Round(4 * track[k].time * speed_mult[2], ticks_per_beat * speed_mult[1])

\* C16: every open note ends at the time cursor (start + duration = time); a
\* finished note has a duration >= 0 that is the sum of the quantized deltas
\* of the messages after its note-on up to and including its note-off.
C16_DurationsFollowTime ==
    /\ time = TimeAfter(Len(track))
    /\ \A k \in DOMAIN durations :
          \A i \in 1..Len(durations[k]) :
              durations[k][i].start + durations[k][i].duration = time
    /\ \A p \in PlacedNotes :
          /\ NoteAt(p).duration >= 0
          /\ \E a, b \in 1..Len(track) :
                /\ a < b
                /\ IsNoteOn(track[a]) /\ track[a].note = NoteAt(p).note_value
                /\ IsNoteOff(track[b]) /\ track[b].note = NoteAt(p).note_value
                /\ NoteAt(p).start = TimeAfter(a)
                /\ NoteAt(p).duration = TimeAfter(b) - TimeAfter(a)

\* A note was finished by the fourth message after growing over two messages
\* with a positive delta, while another note is still open and has grown.
C16_Witness ==
    /\ pc = "loop"
    /\ Len(track) = 4
    /\ IsNoteOn(track[2]) /\ IsNoteOff(track[4])
    /\ track[2].note = track[4].note
    /\ TimeAfter(2) < TimeAfter(3) /\ TimeAfter(3) < TimeAfter(4)
    /\ \E p \in PlacedNotes :
          /\ NoteAt(p).start = TimeAfter(2)
          /\ NoteAt(p).duration = TimeAfter(4) - TimeAfter(2)
    /\ \E k \in DOMAIN durations :
          /\ durations[k] # << >>
          /\ durations[k][1].duration > 0

\* The entities of all Lines, as <<line, position>> pairs
Placed == UNION {{<<i, j>> : j \in 1..Len(lines[i].items)} : i \in 1..Len(lines)}

\* C17: with non-negative deltas every Rest put into a Line has a duration
\* >= 1, every Note that passes the guard of Note.encode has a duration >= 1,
\* and neither an entity nor the whole track raises the AssertionError of
\* _get_length_str when encoded.
C17_NoInvalidDuration ==
    /\ err # "AssertionError"
    /\ \A p \in Placed :
          LET n == NoteAt(p)
          IN  /\ n.class = "Rest" => n.duration >= 1
              /\ (n.class = "Note" /\ ~(n.duration <= 0)) => n.duration >= 1
              /\ Encode(n).exc = "none"
    /\ TrackEncodeResult(lines).exc = "none"
    /\ pc = "done" => err = "none"

\* A Line holding a leading Rest, a Note, a gap Rest and a Note of duration 0
\* has been encoded.
C17_Witness ==
    /\ pc = "done"
    /\ \E i \in 1..Len(lines) :
          LET it == lines[i].items
          IN  /\ Len(it) = 4
              /\ it[1].class = "Rest" /\ it[1].start = 0
              /\ it[2].class = "Note" /\ it[2].duration >= 1
              /\ it[3].class = "Rest" /\ it[3].start = it[2].start + it[2].duration
              /\ it[4].class = "Note" /\ it[4].duration = 0

\* The numbers of note-on and of note-off messages (a note-on of velocity 0 is
\* a note-off) among the messages looked at so far, and of open notes
NoteOns == Cardinality({k \in 1..Len(track) : IsNoteOn(track[k])})
NoteOffs == Cardinality({k \in 1..Len(track) : IsNoteOff(track[k])})
OpenNotes ==
    Cardinality(UNION {{<<k, i>> : i \in 1..Len(durations[k])} : k \in DOMAIN durations})

\* C18: while Track.encode runs, the Lines hold as many Notes as note-off
\* messages were processed, and every note-on is either still open or in a
\* Line; a note-off that raises was not processed.  Notes open at the end of
\* the stream are in no Line, the document is made of the Lines alone, and no
\* error is raised for them.
C18_NotesConserved ==
    /\ pc # "error" =>
          /\ Cardinality(PlacedNotes) = NoteOffs
          /\ Cardinality(PlacedNotes) + OpenNotes = NoteOns
    /\ pc = "error" => Cardinality(PlacedNotes) = NoteOffs - 1
    /\ pc = "done" =>
          /\ err = "none"
          /\ result = MidiEncode(tempo, Returned(JoinWith(<<",">>,
                 [i \in 1..Len(lines) |-> LineEncode(lines[i]).val]))).val

\* The stream ended with one note finished by a note-on of velocity 0 and
\* another note still open, and the document was returned.
C18_Witness ==
    /\ pc = "done"
    /\ \E k \in 1..Len(track) : track[k].type = "note_on" /\ track[k].velocity = 0
    /\ Cardinality(PlacedNotes) = 1
    /\ OpenNotes = 1
    /\ result # Header \o <<";">>

====
